---- MODULE Spec2Model ----
(***************************************************************************)
(* A model of frappe/database/query.py: the filter compiler                *)
(* (Engine.build_conditions, misc_query, dict_query, add_conditions), the  *)
(* nested-set lookup (get_nested_set_hierarchy_result), the field resolver *)
(* (Engine.set_fields), the join planner (Engine.join, join_child_tables)  *)
(* and Engine.get_query with its per-instance build state.                 *)
(*                                                                         *)
(* Representation.  A pypika query builder is a record of its clauses; a   *)
(* builder call returns a changed copy.  A table handle (frappe.qb.DocType *)
(* of a name) is determined by its name, so handles are names.  A Python   *)
(* dict is the sequence of its keys in insertion order.  Strings that the  *)
(* code parses are given by their parts (an orderby string by its comma    *)
(* segments and their words, a field string by its qualifier and name).    *)
(***************************************************************************)
EXTENDS Integers, Sequences, FiniteSets, TLC

\* Python None where a string is expected (no table qualifier, no option).
None == "None"

(***************************************************************************)
(* Values of filters.                                                      *)
(***************************************************************************)
Str(s) == [kind |-> "str", items |-> <<s>>]
List(xs) == [kind |-> "list", items |-> xs]
NoneV == [kind |-> "none", items |-> <<>>]
BoolV(b) == [kind |-> "bool", items |-> <<IF b THEN "1" ELSE "0">>]
\* a list entry (tuple or dict) that ends up in operand position
ObjV == [kind |-> "obj", items |-> <<>>]

\* Python truthiness of a value
Truthy(v) ==
  CASE v.kind = "none" -> FALSE
    [] v.kind = "str" -> v.items[1] # ""
    [] v.kind = "bool" -> v.items[1] = "1"
    [] v.kind = "list" -> Len(v.items) > 0
    [] OTHER -> TRUE

\* str.split(",") on the strings of the model: only "a,b" holds a comma
SplitComma(s) == IF s = "a,b" THEN <<"a", "b">> ELSE <<s>>

\* str.casefold() on the operator tokens of the model
Casefold(tok) ==
  CASE tok = "IN" -> "in"
    [] tok = "Not In" -> "not in"
    [] tok = "LIKE" -> "like"
    [] tok = "Descendants Of" -> "descendants of"
    [] OTHER -> tok

\* frappe.database.utils.NestedSetHierarchy, the value of OPERATOR_MAP["nested_set"]
NestedSetHierarchy ==
  {"ancestors of", "descendants of", "not ancestors of", "not descendants of"}

\* the keys of OPERATOR_MAP
OperatorKeys ==
  {"+", "=", "-", "!=", "<", ">", "<=", "=<", ">=", "=>", "/", "*", "in", "not in",
   "like", "not like", "regex", "between", "is", "timespan", "nested_set"}

\* The predicate OPERATOR_MAP[key](field, value) builds: err when the entry is
\* not callable (nested_set is a tuple).  "=<" and "=>" are operator.le and
\* operator.ge; func_in and func_not_in split a string operand on commas.
OperatorApply(key, tbl, fld, v) ==
  LET op == CASE key = "=<" -> "<=" [] key = "=>" -> ">=" [] OTHER -> key
      val == IF key \in {"in", "not in"} /\ v.kind = "str"
             THEN List(SplitComma(v.items[1])) ELSE v
  IN [err |-> key = "nested_set",
      pred |-> [op |-> op, table |-> tbl, field |-> fld, value |-> val]]

\* field.isnull()
IsNull(tbl, fld) == [op |-> "isnull", table |-> tbl, field |-> fld, value |-> NoneV]

(***************************************************************************)
(* The query builder.                                                      *)
(***************************************************************************)
\* frappe.qb.from_/update/into of a table handle
NewQuery(kind, tbl) ==
  [kind |-> kind, from |-> tbl, wheres |-> <<>>, joins |-> <<>>, orderbys |-> <<>>,
   limit |-> <<>>, offset |-> <<>>, distinct |-> FALSE, for_update |-> FALSE,
   groupbys |-> <<>>, selects |-> <<>>]

Where(q, p) == [q EXCEPT !.wheres = Append(@, p)]

\* Engine.get_table: the stripped name is registered on first use
get_table(tables, name) == IF \E i \in 1..Len(tables) : tables[i] = name
                           THEN tables ELSE Append(tables, name)

\* Engine.get_condition: the table is registered, then update/into/from
get_condition_kind(kw) ==
  IF kw.update THEN "update" ELSE IF kw.into THEN "into" ELSE "select"

(***************************************************************************)
(* Shared modifiers.  The options bag kw has every key; a key that was not *)
(* passed holds the value kwargs.get returns for it (<<>>, 0, FALSE, None).*)
(* kw.orderby is the orderby string as its comma segments, each segment as *)
(* its whitespace-separated words (one space follows each comma).          *)
(***************************************************************************)
\* str.lower() on the direction words of the model
Lower(w) == IF w = "ASC" THEN "asc" ELSE IF w = "DESC" THEN "desc" ELSE w

\* change_orderby: (field, Order.asc) when the second word is asc, else desc
change_orderby(seg) ==
  <<seg[1], IF Len(seg) >= 2 /\ Lower(seg[2]) = "asc" THEN "asc" ELSE "desc">>

RECURSIVE SumLen(_)
SumLen(segs) == IF segs = <<>> THEN 0 ELSE Len(Head(segs)) + SumLen(Tail(segs))

\* the loop of add_conditions over orderby.split(","): empty segments are skipped
RECURSIVE OrderBySegments(_, _)
OrderBySegments(obs, segs) ==
  IF segs = <<>> THEN obs
  ELSE OrderBySegments(IF Head(segs) = <<>> THEN obs
                       ELSE Append(obs, change_orderby(Head(segs))), Tail(segs))

add_conditions(q, kw) ==
  LET q1 == IF kw.orderby # <<>> /\ kw.orderby # <<<<"KEEP_DEFAULT_ORDERING">>>>
            THEN IF SumLen(kw.orderby) > 1
                 THEN [q EXCEPT !.orderbys = OrderBySegments(@, kw.orderby)]
                 ELSE [q EXCEPT !.orderbys =
                         Append(@, <<kw.orderby[1][1],
                                     IF kw.order # None THEN kw.order ELSE "desc">>)]
            ELSE q
      q2 == IF kw.limit # 0
            THEN [q1 EXCEPT !.limit = <<kw.limit>>, !.offset = <<kw.offset>>] ELSE q1
      q3 == IF kw.distinct THEN [q2 EXCEPT !.distinct = TRUE] ELSE q2
      q4 == IF kw.for_update THEN [q3 EXCEPT !.for_update = TRUE] ELSE q3
  IN IF kw.groupby # None THEN [q4 EXCEPT !.groupbys = Append(@, kw.groupby)] ELSE q4

(***************************************************************************)
(* Nested-set lookup.  db is the table of the tree entity: a set of rows   *)
(* [name, lft, rgt] with distinct names and distinct lft.  A comparison    *)
(* with an absent bound (lft, rgt = None, None) is SQL's comparison with   *)
(* NULL, which selects no row.                                             *)
(***************************************************************************)
\* .orderby(Field("lft"), order=...).run(): the names of rows, by lft
RECURSIVE OrderByLft(_, _)
OrderByLft(rows, order) ==
  IF rows = {} THEN <<>>
  ELSE LET first == CHOOSE r \in rows : \A o \in rows :
                       IF order = "asc" THEN r.lft <= o.lft ELSE r.lft >= o.lft
       IN <<first.name>> \o OrderByLft(rows \ {first}, order)

\* the lookup with inclusive bounds (>= and <= for > and <)
MutNestedSetInclusive(db, hierarchy, field) ==
  LET ref == {r \in db : r.name = field}
      b == CHOOSE r \in ref : TRUE
  IN IF hierarchy \in {"descendants of", "not descendants of"}
     THEN OrderByLft({r \in db : ref # {} /\ r.lft >= b.lft /\ r.rgt <= b.rgt}, "asc")
     ELSE OrderByLft({r \in db : ref # {} /\ r.lft <= b.lft /\ r.rgt >= b.rgt}, "desc")

\* the lookup with the negated verbs on the complementary side
MutNestedSetSwapped(db, hierarchy, field) ==
  LET ref == {r \in db : r.name = field}
      b == CHOOSE r \in ref : TRUE
  IN IF hierarchy \in {"descendants of", "not ancestors of"}
     THEN OrderByLft({r \in db : ref # {} /\ r.lft > b.lft /\ r.rgt < b.rgt}, "asc")
     ELSE OrderByLft({r \in db : ref # {} /\ r.lft < b.lft /\ r.rgt > b.rgt}, "desc")

\* get_nested_set_hierarchy_result (the table argument is the one table db)
get_nested_set_hierarchy_result(db, hierarchy, field) ==
  LET ref == {r \in db : r.name = field}
      b == CHOOSE r \in ref : TRUE
  IN IF hierarchy \in {"descendants of", "not descendants of"}
     THEN OrderByLft({r \in db : ref # {} /\ r.lft > b.lft /\ r.rgt < b.rgt}, "asc")
     ELSE OrderByLft({r \in db : ref # {} /\ r.lft < b.lft /\ r.rgt > b.rgt}, "desc")

(***************************************************************************)
(* Filters.  A filter is [kind, s, entries, items]:                        *)
(*   none | scalar (s = str(filters)) | criterion (s names the criterion)  *)
(*   | list, tuple (entries) | dict (items, in insertion order).           *)
(* A list entry is [kind, table, field, tok, val, items]: a 3-tuple        *)
(* (table = None) or 4-tuple (field, tok, val), a dict (items) or a bare   *)
(* string (field).  A dict item is [key, kind, tok, val]: a plain value    *)
(* val, or a pair (tok, val).                                              *)
(***************************************************************************)
\* has_function(key) on the keys of the model: the ones holding a "("
HasFunction(key) == key \in {"count(name)"}

\* the state of a condition build: the query so far, the table cache, whether
\* an exception was raised, and whether the loop was left by break
BuildState(q, tables, err) == [q |-> q, tables |-> tables, err |-> err, stop |-> FALSE]

\* the loop body with the hierarchy operand taken from the lookup as it is,
\* also when the lookup is empty
MutDictItemNoFallback(st, db, table, it) ==
  LET val == IF it.kind = "plain" /\ it.val.kind = "bool" THEN Str(it.val.items[1])
             ELSE it.val
  IN
  IF HasFunction(it.key)
  THEN \* make_function_for_filters: list(value) of a pair; a plain value of
       \* the model raises (its first character is no operator)
       IF it.kind = "pair" /\ Casefold(it.tok) \in OperatorKeys
       THEN LET r == OperatorApply(Casefold(it.tok), None, it.key, val)
            IN [st EXCEPT !.q = IF r.err THEN @ ELSE Where(@, r.pred),
                          !.err = r.err]
       ELSE [st EXCEPT !.err = TRUE]
  ELSE IF it.kind = "pair"
  THEN IF it.tok \in NestedSetHierarchy
       THEN LET result == get_nested_set_hierarchy_result(db, it.tok,
                             IF val.kind = "str" THEN val.items[1] ELSE None)
                key == IF it.tok \in {"not ancestors of", "not descendants of"}
                       THEN "not in" ELSE "in"
                r == OperatorApply(key, table, it.key,
                        List(result))
            IN [st EXCEPT !.q = Where(@, r.pred), !.stop = TRUE]
       ELSE IF Casefold(it.tok) \notin OperatorKeys THEN [st EXCEPT !.err = TRUE]
       ELSE LET r == OperatorApply(Casefold(it.tok), table, it.key,
                        IF Truthy(val) THEN val ELSE List(<<"">>))
            IN [st EXCEPT !.q = IF r.err THEN @ ELSE Where(@, r.pred),
                          !.err = r.err]
  ELSE IF val.kind # "none"
       THEN [st EXCEPT !.q = Where(@, OperatorApply("=", table, it.key, val).pred)]
       \* conditions._from[0]: only a SELECT has a FROM list
       ELSE IF st.q.kind # "select" THEN [st EXCEPT !.err = TRUE]
       ELSE [st EXCEPT !.q = Where(@, IsNull(st.q.from, it.key))]

\* one pass of the loop body of dict_query (lines 378-412) for item it
DictItem(st, db, table, it) ==
  LET val == IF it.kind = "plain" /\ it.val.kind = "bool" THEN Str(it.val.items[1])
             ELSE it.val
  IN
  IF HasFunction(it.key)
  THEN \* make_function_for_filters: list(value) of a pair; a plain value of
       \* the model raises (its first character is no operator)
       IF it.kind = "pair" /\ Casefold(it.tok) \in OperatorKeys
       THEN LET r == OperatorApply(Casefold(it.tok), None, it.key, val)
            IN [st EXCEPT !.q = IF r.err THEN @ ELSE Where(@, r.pred),
                          !.err = r.err]
       ELSE [st EXCEPT !.err = TRUE]
  ELSE IF it.kind = "pair"
  THEN IF it.tok \in NestedSetHierarchy
       THEN LET result == get_nested_set_hierarchy_result(db, it.tok,
                             IF val.kind = "str" THEN val.items[1] ELSE None)
                key == IF it.tok \in {"not ancestors of", "not descendants of"}
                       THEN "not in" ELSE "in"
                r == OperatorApply(key, table, it.key,
                        IF result # <<>> THEN List(result) ELSE List(<<"">>))
            IN [st EXCEPT !.q = Where(@, r.pred), !.stop = TRUE]
       ELSE IF Casefold(it.tok) \notin OperatorKeys THEN [st EXCEPT !.err = TRUE]
       ELSE LET r == OperatorApply(Casefold(it.tok), table, it.key,
                        IF Truthy(val) THEN val ELSE List(<<"">>))
            IN [st EXCEPT !.q = IF r.err THEN @ ELSE Where(@, r.pred),
                          !.err = r.err]
  ELSE IF val.kind # "none"
       THEN [st EXCEPT !.q = Where(@, OperatorApply("=", table, it.key, val).pred)]
       \* conditions._from[0]: only a SELECT has a FROM list
       ELSE IF st.q.kind # "select" THEN [st EXCEPT !.err = TRUE]
       ELSE [st EXCEPT !.q = Where(@, IsNull(st.q.from, it.key))]

\* the loop "for key in filters" of dict_query, left by break or by an exception
RECURSIVE DictLoop(_, _, _, _)
DictLoop(st, db, table, items) ==
  IF items = <<>> \/ st.err \/ st.stop THEN st
  ELSE DictLoop(DictItem(st, db, table, Head(items)), db, table, Tail(items))

dict_query(tables, db, table, items, kw) ==
  LET st0 == BuildState(NewQuery(get_condition_kind(kw), table),
                        get_table(tables, table), FALSE)
  IN IF items = <<>> THEN [st0 EXCEPT !.q = add_conditions(@, kw)]
     ELSE LET st == DictLoop(st0, db, table, items)
          IN IF st.err THEN st
             ELSE [st EXCEPT !.q = add_conditions(@, kw), !.stop = FALSE]

\* the loop body without the break after the positional shorthand
MutMiscEntryNoBreak(st, db, table, filters, f, kw) ==
  IF f.kind = "tuple"
  THEN IF Casefold(f.tok) \notin OperatorKeys THEN [st EXCEPT !.err = TRUE]
       ELSE LET r == OperatorApply(Casefold(f.tok), f.table, f.field, f.val)
            IN [st EXCEPT !.tables = IF f.table # None THEN get_table(@, f.table) ELSE @,
                          !.q = IF r.err THEN @ ELSE Where(@, r.pred),
                          !.err = r.err]
  ELSE IF f.kind = "dict"
  THEN dict_query(st.tables, db, table, f.items, kw)
  ELSE \* the list itself is read as (field, operator, value)
       IF Len(filters) < 2 \/ filters[2].kind # "bare" THEN [st EXCEPT !.err = TRUE]
       ELSE IF Casefold(filters[2].field) \notin OperatorKeys THEN [st EXCEPT !.err = TRUE]
       \* make_function_for_filters(filters[0], filters[2]) raises on the
       \* entries of the model (no entry starts with an operator token)
       ELSE IF filters[1].kind # "bare" \/ Len(filters) < 3 THEN [st EXCEPT !.err = TRUE]
       ELSE LET r == OperatorApply(Casefold(filters[2].field), None, filters[1].field,
                        IF filters[3].kind = "bare" THEN Str(filters[3].field) ELSE ObjV)
            IN [st EXCEPT !.q = IF r.err THEN @ ELSE Where(@, r.pred),
                          !.err = r.err]

\* one pass of the loop body of misc_query (lines 334-350) for entry f of filters
MiscEntry(st, db, table, filters, f, kw) ==
  IF f.kind = "tuple"
  THEN IF Casefold(f.tok) \notin OperatorKeys THEN [st EXCEPT !.err = TRUE]
       ELSE LET r == OperatorApply(Casefold(f.tok), f.table, f.field, f.val)
            IN [st EXCEPT !.tables = IF f.table # None THEN get_table(@, f.table) ELSE @,
                          !.q = IF r.err THEN @ ELSE Where(@, r.pred),
                          !.err = r.err]
  ELSE IF f.kind = "dict"
  THEN dict_query(st.tables, db, table, f.items, kw)
  ELSE \* the list itself is read as (field, operator, value)
       IF Len(filters) < 2 \/ filters[2].kind # "bare" THEN [st EXCEPT !.err = TRUE]
       ELSE IF Casefold(filters[2].field) \notin OperatorKeys THEN [st EXCEPT !.err = TRUE]
       \* make_function_for_filters(filters[0], filters[2]) raises on the
       \* entries of the model (no entry starts with an operator token)
       ELSE IF filters[1].kind # "bare" \/ Len(filters) < 3 THEN [st EXCEPT !.err = TRUE]
       ELSE LET r == OperatorApply(Casefold(filters[2].field), None, filters[1].field,
                        IF filters[3].kind = "bare" THEN Str(filters[3].field) ELSE ObjV)
            IN [st EXCEPT !.q = IF r.err THEN @ ELSE Where(@, r.pred),
                          !.err = r.err, !.stop = TRUE]

\* the loop "for f in filters" of misc_query
RECURSIVE MiscLoop(_, _, _, _, _, _)
MiscLoop(st, db, table, filters, i, kw) ==
  IF i > Len(filters) \/ st.err \/ st.stop THEN st
  ELSE MiscLoop(MiscEntry(st, db, table, filters, filters[i], kw),
                db, table, filters, i + 1, kw)

misc_query(tables, db, table, flt, kw) ==
  LET st0 == BuildState(NewQuery(get_condition_kind(kw), table),
                        get_table(tables, table), FALSE)
  IN IF flt.entries = <<>> THEN st0
     ELSE LET st == IF flt.kind = "list"
                    THEN MiscLoop(st0, db, table, flt.entries, 1, kw) ELSE st0
          IN IF st.err THEN st
             ELSE [st EXCEPT !.q = add_conditions(@, kw), !.stop = FALSE]

\* criterion_query: the modifiers, then WHERE criterion
criterion_query(tables, table, crit, kw) ==
  BuildState(Where(add_conditions(NewQuery(get_condition_kind(kw), table), kw),
                   [op |-> "criterion", table |-> None, field |-> crit, value |-> NoneV]),
             get_table(tables, table), FALSE)

\* Engine.build_conditions: a scalar is {"name": str(filters)}
build_conditions(tables, db, table, flt, kw) ==
  CASE flt.kind = "scalar" ->
         dict_query(tables, db, table,
                    <<[key |-> "name", kind |-> "plain", tok |-> None, val |-> Str(flt.s)]>>, kw)
    [] flt.kind = "criterion" -> criterion_query(tables, table, flt.s, kw)
    [] flt.kind \in {"list", "tuple"} -> misc_query(tables, db, table, flt, kw)
    [] OTHER -> dict_query(tables, db, table, flt.items, kw)

(***************************************************************************)
(* Field resolver.  A field specification is [form, items]: none, a list   *)
(* of field strings, or one string of comma-separated fields (str).  A     *)
(* field string is [kind, table, link, name]: plain "name", quoted         *)
(* "`tab<table>`.`name`", dotted "<link>.name" or star "*".  The field     *)
(* strings of the model hold no SQL                                        *)
(* function, alias or comment, so sanitize_fields and                      *)
(* remove_string_functions leave them as they are.                         *)
(***************************************************************************)
PlainField(name) == [kind |-> "plain", table |-> None, link |-> None, name |-> name]
QuotedField(tbl, name) == [kind |-> "quoted", table |-> tbl, link |-> None, name |-> name]
DottedField(link, name) == [kind |-> "dotted", table |-> None, link |-> link, name |-> name]
StarField == [kind |-> "star", table |-> None, link |-> None, name |-> "*"]

\* frappe.get_meta(doctype).get_field(fieldname).options
LinkedDoctype(doctype, link) == IF link = "note_link" THEN "Note" ELSE "Tag"

\* get_fieldnames_from_child_table: link.name becomes `tab<linked>`.`name`
get_fieldnames_from_child_table(doctype, items) ==
  [i \in 1..Len(items) |->
     IF items[i].kind = "dotted"
     THEN QuotedField(LinkedDoctype(doctype, items[i].link), items[i].name)
     ELSE items[i]]

\* get_list_fields: a list holding "*" is returned as it is
get_list_fields(table, items) ==
  IF \E i \in 1..Len(items) : items[i].kind = "star" THEN items
  ELSE get_fieldnames_from_child_table(table, items)

\* Engine.set_fields: pluck, else fields, else "name"; a one-element list is
\* its element; a string without a comma goes through get_string_fields,
\* everything else through get_list_fields
set_fields(table, fields, kw) ==
  LET items == IF kw.pluck # None THEN <<PlainField(kw.pluck)>>
               ELSE IF fields.form = "none" \/ fields.items = <<>>
               THEN <<PlainField("name")>>
               ELSE fields.items
  IN IF Len(items) = 1 THEN items ELSE get_list_fields(table, items)

(***************************************************************************)
(* Join planner.  A join clause is [type, child, parent, parenttype].      *)
(* joined_tables maps a join type to the child joined last, or None.       *)
(***************************************************************************)
JoinTypes == {"left_join", "inner_join"}

\* kwargs.get("join").replace(" ", "_") if kwargs.get("join") else "left_join"
JoinType(kw) == IF kw.join = None THEN "left_join"
                ELSE IF kw.join = "inner join" THEN "inner_join" ELSE kw.join

\* join_child_tables on the state js of the planner (the query, the join plan,
\* the fields, whether an exception was raised)
join_child_tables(js, join_type, child_table, parent_table) ==
  IF js.joined[join_type] # child_table
  THEN [js EXCEPT !.q.joins = Append(@, [type |-> join_type, child |-> child_table,
                                         parent |-> parent_table,
                                         parenttype |-> parent_table]),
                  !.joined[join_type] = child_table]
  ELSE js

\* the loop over fields of Engine.join (lines 691-706)
RECURSIVE JoinFields(_, _, _, _)
JoinFields(js, fields, table, join_type) ==
  IF fields = <<>> THEN js
  ELSE LET f == Head(fields)
       IN JoinFields(IF f.kind = "quoted" /\ f.table # table
                     THEN join_child_tables(js, join_type, f.table, table) ELSE js,
                     Tail(fields), table, join_type)

\* the loop over list(self.tables.values())[1:] (lines 714-720)
RECURSIVE JoinCached(_, _, _, _)
JoinCached(js, children, parent, join_type) ==
  IF children = <<>> THEN js
  ELSE JoinCached(join_child_tables(js, join_type, Head(children), parent),
                  Tail(children), parent, join_type)

\* _update_pypika_fields: a field without a table qualifier gets the table's
UpdateFields(fields, table) ==
  [i \in 1..Len(fields) |->
     IF fields[i].kind = "quoted" THEN fields[i]
     ELSE [fields[i] EXCEPT !.kind = "qualified", !.table = table]]

\* Engine.join: err is the KeyError of self.tables[table]
join(criterion, fields, table, join_type, tbls, joined) ==
  LET js0 == [q |-> criterion, joined |-> joined, fields |-> fields, err |-> FALSE]
      js1 == JoinFields(js0, fields, table, join_type)
      has_join == \E i \in 1..Len(fields) :
                     fields[i].kind = "quoted" /\ fields[i].table # table
      js2 == IF has_join THEN [js1 EXCEPT !.fields = UpdateFields(fields, table)] ELSE js1
  IN IF Len(tbls) > 1
     THEN IF \A i \in 1..Len(tbls) : tbls[i] # table THEN [js2 EXCEPT !.err = TRUE]
          ELSE JoinCached(js2, Tail(tbls), table, join_type)
     ELSE js2

(***************************************************************************)
(* The permission gate.  SQL text is modelled by its words, the maximal    *)
(* runs of letters, digits and "_" that WORDS_PATTERN finds, in text       *)
(* order.  A word is [tab, text]: the characters "tab" when tab is TRUE,   *)
(* followed by text; a word with tab = FALSE does not start with "tab".    *)
(***************************************************************************)
Word(text) == [tab |-> FALSE, text |-> text]
TabWord(text) == [tab |-> TRUE, text |-> text]

\* WORDS_PATTERN.findall(s) on the strings of the model
WordsOf(s) ==
  CASE s = "Sales Order" -> <<Word("Sales"), Word("Order")>>
    [] s = "Sales Invoice Item" -> <<Word("Sales"), Word("Invoice"), Word("Item")>>
    [] s = "tabby" -> <<TabWord("by")>>
    [] s = "table_name" -> <<TabWord("le_name")>>
    [] s = "a,b" -> <<Word("a"), Word("b")>>
    [] s = "count(name)" -> <<Word("count"), Word("name")>>
    [] s \in {"", "*"} -> <<>>
    [] OTHER -> <<Word(s)>>

\* the words of the table name of an entity, "tab" followed by its name
TableWords(name) ==
  LET w == WordsOf(name) IN <<TabWord(w[1].text)>> \o Tail(w)

RECURSIVE Flatten(_)
Flatten(seqs) == IF seqs = <<>> THEN <<>> ELSE Head(seqs) \o Flatten(Tail(seqs))

\* the words of a selected term of the rendered query
FieldWords(f) ==
  (IF f.kind \in {"quoted", "qualified"} THEN TableWords(f.table) ELSE <<>>)
  \o WordsOf(f.name)

\* the words of a rendered predicate: qualifier, field, operator, literals
PredicateWords(p) ==
  (IF p.table # None THEN TableWords(p.table) ELSE <<>>)
  \o WordsOf(p.field)
  \o (CASE p.op = "in" -> <<Word("IN")>>
        [] p.op = "not in" -> <<Word("NOT"), Word("IN")>>
        [] p.op = "like" -> <<Word("LIKE")>>
        [] p.op = "isnull" -> <<Word("IS"), Word("NULL")>>
        [] OTHER -> <<>>)
  \o Flatten([i \in 1..Len(p.value.items) |-> WordsOf(p.value.items[i])])

\* the words of a rendered join clause:
\* JOIN child ON child.parent = parent.name AND child.parenttype = '<parent>'
JoinWords(j) ==
  <<Word(IF j.type = "inner_join" THEN "INNER" ELSE "LEFT"), Word("JOIN")>>
  \o TableWords(j.child) \o <<Word("ON")>>
  \o TableWords(j.child) \o <<Word("parent")>>
  \o TableWords(j.parent) \o <<Word("name")>> \o <<Word("AND")>>
  \o TableWords(j.child) \o <<Word("parenttype")>> \o WordsOf(j.parenttype)

\* query.get_sql() of a SELECT, as its words
get_sql(q) ==
  <<Word("SELECT")>>
  \o Flatten([i \in 1..Len(q.selects) |-> FieldWords(q.selects[i])])
  \o <<Word("FROM")>> \o TableWords(q.from)
  \o Flatten([i \in 1..Len(q.joins) |-> JoinWords(q.joins[i])])
  \o (IF q.wheres # <<>> THEN <<Word("WHERE")>> ELSE <<>>)
  \o Flatten([i \in 1..Len(q.wheres) |-> PredicateWords(q.wheres[i])])

\* Permission.get_tables_from_query: the words that start with "tab"
get_tables_from_query(query) == SelectSeq(query, LAMBDA w : w.tab)

\* TAB_PATTERN.sub("", dt): a leading "tab" is removed
TabSub(w) == w.text

\* the loop of check_permissions: the first entity without permission is
\* the one frappe.throw names, None when the loop ends
RECURSIVE PermissionLoop(_, _)
PermissionLoop(doctype, granted) ==
  IF doctype = <<>> THEN None
  ELSE IF TabSub(Head(doctype)) \notin granted THEN TabSub(Head(doctype))
  ELSE PermissionLoop(Tail(doctype), granted)

(***************************************************************************)
(* The program state.                                                      *)
(***************************************************************************)
VARIABLES
  classTables,    \* Engine.tables, the class attribute (line 233)
  tables,         \* per Engine instance: self.tables once get_query has set it
  joined_tables,  \* per Engine instance: self.joined_tables
  db,             \* the rows of the tree entity
  pc,             \* per caller: its position in get_query
  call,           \* per caller: the arguments of its get_query call
  criterion,      \* per caller: the local criterion of get_query
  fields,         \* per caller: the local fields of get_query
  bc,             \* the last direct build_conditions call and what it returned
  ns,             \* the last get_nested_set_hierarchy_result call and its result
  perm            \* the last Permission.check_permissions call and what it did

vars == <<classTables, tables, joined_tables, db, pc, call, criterion, fields, bc, ns,
          perm>>

Engines == {"e1", "e2"}
Callers == {"t1", "t2"}

\* the options bag with no key passed
NoKw == [orderby |-> <<>>, order |-> None, limit |-> 0, offset |-> 0,
         distinct |-> FALSE, for_update |-> FALSE, groupby |-> None,
         update |-> FALSE, into |-> FALSE, join |-> None, pluck |-> None]

NoFilter == [kind |-> "none", s |-> None, entries |-> <<>>, items |-> <<>>]
NoFields == [form |-> "none", items |-> <<>>]
NoCall == [engine |-> "e1", table |-> None, fields |-> NoFields, filters |-> NoFilter,
           kw |-> NoKw]
NoBc == [called |-> FALSE, table |-> None, filters |-> NoFilter, kw |-> NoKw,
         err |-> FALSE, q |-> NewQuery("select", None)]
NoNs == [called |-> FALSE, hierarchy |-> None, field |-> None, result |-> <<>>]
NoPerm == [called |-> FALSE, call |-> NoCall, doctype |-> <<>>, thrown |-> None]

\* self.tables of engine e: the instance attribute, else the class attribute
SelfTables(e) == IF tables[e].set THEN tables[e].d ELSE classTables

InitEngine ==
  /\ classTables = <<>>
  /\ tables = [e \in Engines |-> [set |-> FALSE, d |-> <<>>]]
  /\ joined_tables = [e \in Engines |-> [jt \in JoinTypes |-> None]]
  /\ pc = [t \in Callers |-> "idle"]
  /\ call = [t \in Callers |-> NoCall]
  /\ perm = NoPerm
  /\ criterion = [t \in Callers |-> NewQuery("select", None)]
  /\ fields = [t \in Callers |-> <<>>]

\* the assignment self.tables[...] = ... of a build on engine e
SetSelfTables(e, d) ==
  IF tables[e].set
  THEN /\ tables' = [tables EXCEPT ![e].d = d]
       /\ UNCHANGED classTables
  ELSE /\ classTables' = d
       /\ UNCHANGED tables

(***************************************************************************)
(* get_query, by its statements.                                           *)
(***************************************************************************)
\* the reset without "self.tables = {}"
MutResetKeepTables(e) ==
  /\ UNCHANGED tables
  /\ joined_tables' = [joined_tables EXCEPT ![e] = [jt \in JoinTypes |-> None]]

\* lines 732-735: "Clean up state before each query"
ResetState(e) ==
  /\ tables' = [tables EXCEPT ![e] = [set |-> TRUE, d |-> <<>>]]
  /\ joined_tables' = [joined_tables EXCEPT ![e] = [jt \in JoinTypes |-> None]]

\* caller t enters get_query(table, flds, flt, **kw) on engine e
GetQueryReset(t, e, table, flds, flt, kw) ==
  /\ pc[t] \in {"idle", "done", "failed"}
  /\ ResetState(e)
  /\ pc' = [pc EXCEPT ![t] = "reset"]
  /\ call' = [call EXCEPT ![t] = [engine |-> e, table |-> table, fields |-> flds,
                                  filters |-> flt, kw |-> kw]]
  /\ criterion' = [criterion EXCEPT ![t] = NewQuery("select", None)]
  /\ fields' = [fields EXCEPT ![t] = <<>>]
  /\ UNCHANGED <<classTables, db, bc, ns, perm>>

\* line 737: criterion = self.build_conditions(table, filters, **kwargs)
GetQueryBuildConditions(t) ==
  /\ pc[t] = "reset"
  /\ LET c == call[t]
         r == build_conditions(SelfTables(c.engine), db, c.table, c.filters, c.kw)
     IN /\ SetSelfTables(c.engine, r.tables)
        /\ pc' = [pc EXCEPT ![t] = IF r.err THEN "failed" ELSE "built"]
        /\ criterion' = [criterion EXCEPT ![t] = IF r.err THEN @ ELSE r.q]
  /\ UNCHANGED <<joined_tables, db, call, fields, bc, ns, perm>>

\* line 738: fields = self.set_fields(table, fields, **kwargs)
GetQuerySetFields(t) ==
  /\ pc[t] = "built"
  /\ fields' = [fields EXCEPT ![t] = set_fields(call[t].table, call[t].fields, call[t].kw)]
  /\ pc' = [pc EXCEPT ![t] = "fields"]
  /\ UNCHANGED <<classTables, tables, joined_tables, db, call, criterion, bc, ns, perm>>

\* lines 739-753: the join, then criterion.select(*fields) is returned
GetQueryJoin(t) ==
  /\ pc[t] = "fields"
  /\ LET c == call[t]
         r == join(criterion[t], fields[t], c.table, JoinType(c.kw),
                   SelfTables(c.engine), joined_tables[c.engine])
     IN /\ joined_tables' = [joined_tables EXCEPT ![c.engine] = r.joined]
        /\ pc' = [pc EXCEPT ![t] = IF r.err THEN "failed" ELSE "done"]
        /\ criterion' = [criterion EXCEPT ![t] =
                           IF r.err THEN r.q ELSE [r.q EXCEPT !.selects = r.fields]]
        /\ fields' = [fields EXCEPT ![t] = r.fields]
  /\ UNCHANGED <<classTables, tables, db, call, bc, ns, perm>>

\* a direct call of build_conditions(table, flt, **kw) on engine e
BuildConditionsCall(e, table, flt, kw) ==
  /\ LET r == build_conditions(SelfTables(e), db, table, flt, kw)
     IN /\ SetSelfTables(e, r.tables)
        /\ bc' = [called |-> TRUE, table |-> table, filters |-> flt, kw |-> kw,
                  err |-> r.err, q |-> IF r.err THEN NewQuery("select", None) ELSE r.q]
  /\ UNCHANGED <<joined_tables, db, pc, call, criterion, fields, ns, perm>>

\* a call of get_nested_set_hierarchy_result(hierarchy, field, table)
NestedSetCall(hierarchy, field) ==
  /\ ns' = [called |-> TRUE, hierarchy |-> hierarchy, field |-> field,
            result |-> get_nested_set_hierarchy_result(db, hierarchy, field)]
  /\ UNCHANGED <<classTables, tables, joined_tables, db, pc, call, criterion, fields, bc, perm>>

\* Permission.check_permissions(query) on the query caller t got from
\* get_query; has_permission answers TRUE for the entities in granted
CheckPermissions(t, granted) ==
  /\ pc[t] = "done"
  /\ LET doctype == get_tables_from_query(get_sql(criterion[t]))
     IN perm' = [called |-> TRUE, call |-> call[t], doctype |-> doctype,
                 thrown |-> PermissionLoop(doctype, granted)]
  /\ UNCHANGED <<classTables, tables, joined_tables, db, pc, call, criterion, fields,
                 bc, ns>>

(***************************************************************************)
(* Inputs.                                                                 *)
(***************************************************************************)
Tuple3(field, tok, val) ==
  [kind |-> "tuple", table |-> None, field |-> field, tok |-> tok, val |-> val,
   items |-> <<>>]
Tuple4(tbl, field, tok, val) ==
  [kind |-> "tuple", table |-> tbl, field |-> field, tok |-> tok, val |-> val,
   items |-> <<>>]
DictEntry(items) ==
  [kind |-> "dict", table |-> None, field |-> None, tok |-> None, val |-> NoneV,
   items |-> items]
Bare(s) ==
  [kind |-> "bare", table |-> None, field |-> s, tok |-> None, val |-> NoneV,
   items |-> <<>>]
Plain(key, val) == [key |-> key, kind |-> "plain", tok |-> None, val |-> val]
Pair(key, tok, val) == [key |-> key, kind |-> "pair", tok |-> tok, val |-> val]

ListFilter(entries) == [kind |-> "list", s |-> None, entries |-> entries, items |-> <<>>]
TupleFilter(entries) == [kind |-> "tuple", s |-> None, entries |-> entries, items |-> <<>>]
DictFilter(items) == [kind |-> "dict", s |-> None, entries |-> <<>>, items |-> items]
ScalarFilter(s) == [kind |-> "scalar", s |-> s, entries |-> <<>>, items |-> <<>>]
CriterionFilter(c) == [kind |-> "criterion", s |-> c, entries |-> <<>>, items |-> <<>>]

\* the longest list filter, the longest dict filter, the last lft/rgt position
MaxEntries == 3
MaxItems == 2
MaxPos == 6

\* sequences over S of length 0..n
SeqUpTo(S, n) == UNION {[1..k -> S] : k \in 0..n}

\* the tree A(B(C, D)) as a nested set
Tree == {[name |-> "A", lft |-> 1, rgt |-> 8], [name |-> "B", lft |-> 2, rgt |-> 7],
         [name |-> "C", lft |-> 3, rgt |-> 4], [name |-> "D", lft |-> 5, rgt |-> 6]}

NodeNames == {"A", "B", "C"}

\* every nested set over some of NodeNames with bounds in 1..MaxPos: distinct
\* bounds, and two rows are disjoint or one encloses the other
NestedSets ==
  LET Bounds == {b \in (1..MaxPos) \X (1..MaxPos) : b[1] < b[2]}
      Ok(f) == \A m, n \in DOMAIN f : m # n =>
                  /\ {f[m][1], f[m][2]} \cap {f[n][1], f[n][2]} = {}
                  /\ \/ f[m][2] < f[n][1] \/ f[n][2] < f[m][1]
                     \/ (f[m][1] < f[n][1] /\ f[n][2] < f[m][2])
                     \/ (f[n][1] < f[m][1] /\ f[m][2] < f[n][2])
  IN {{[name |-> n, lft |-> f[n][1], rgt |-> f[n][2]] : n \in DOMAIN f} :
        f \in {g \in UNION {[S -> Bounds] : S \in SUBSET NodeNames} : Ok(g)}}

HierarchyItems ==
  {Pair("parent_task", verb, Str(ref)) : verb \in NestedSetHierarchy, ref \in {"B", "Z"}}

ItemUniverse ==
  {Plain("status", Str("Open")), Plain("priority", NoneV), Plain("is_group", BoolV(TRUE)),
   Pair("priority", "IN", List(<<"High", "Low">>)), Pair("status", "bogus", Str("x")),
   Pair("owner", "in", Str("")), Pair("count(name)", ">", Str("1"))}
  \cup HierarchyItems

\* dicts: the keys of a dict are distinct
Dicts(n) == {d \in SeqUpTo(ItemUniverse, n) :
               \A i, j \in 1..Len(d) : i # j => d[i].key # d[j].key}

EntryUniverse ==
  {Tuple3("status", "=", Str("Open")), Tuple3("priority", "IN", List(<<"High", "Low">>)),
   Tuple4("Note", "title", "LIKE", Str("x")), Tuple3("status", "bogus", Str("Open")),
   DictEntry(<<Plain("owner", Str("me"))>>),
   Bare("status"), Bare("="), Bare("Open")}

BCFilters ==
  {NoFilter, ScalarFilter("X"), CriterionFilter("c1")}
  \cup {ListFilter(es) : es \in SeqUpTo(EntryUniverse, MaxEntries)}
  \cup {TupleFilter(es) : es \in SeqUpTo(EntryUniverse, MaxEntries)}
  \cup {DictFilter(d) : d \in Dicts(MaxItems)}

BCKw ==
  {NoKw,
   [NoKw EXCEPT !.orderby = <<<<"creation">>>>, !.groupby = "status"],
   [NoKw EXCEPT !.orderby = <<<<"creation", "ASC">>, <<"modified">>>>, !.limit = 2,
                !.offset = 1],
   [NoKw EXCEPT !.orderby = <<<<"creation">>>>, !.order = "asc", !.limit = 2,
                !.distinct = TRUE, !.for_update = TRUE, !.groupby = "status"]}

GQTables == {"Task", "Item"}
GQFilters ==
  {NoFilter,
   ListFilter(<<Tuple4("Note", "title", "=", Str("x"))>>),
   ListFilter(<<Tuple4("Note", "title", "=", Str("x")), Tuple4("Tag", "label", "=", Str("y"))>>)}
GQFields ==
  {NoFields,
   [form |-> "list", items |-> <<QuotedField("Tag", "label")>>],
   [form |-> "list", items |-> <<DottedField("note_link", "title"), PlainField("subject")>>]}
GQKw == {NoKw, [NoKw EXCEPT !.join = "inner join"]}

\* the longest list filter that holds the positional shorthand
MaxShorthand == 4

\* entries of a list that holds bare strings among tuples and dicts
ShorthandEntries ==
  {Bare("status"), Bare("="), Bare("Open"), Bare("bogus"),
   Tuple3("priority", "=", Str("High")), DictEntry(<<Plain("owner", Str("me"))>>)}

MQFilters == {ListFilter(es) : es \in SeqUpTo(ShorthandEntries, MaxShorthand)}

\* the builds handed to the permission gate: entity names of one and of
\* several words, and a literal and a field name that start with "tab"
PermTables == {"Task", "Sales Order"}
PermFilters ==
  {NoFilter,
   ListFilter(<<Tuple4("Note", "title", "=", Str("x"))>>),
   ListFilter(<<Tuple4("Sales Invoice Item", "item_code", "=", Str("x"))>>),
   ListFilter(<<Tuple3("status", "=", Str("tabby"))>>)}
PermFields ==
  {NoFields,
   [form |-> "list", items |-> <<QuotedField("Tag", "label")>>],
   [form |-> "list", items |-> <<PlainField("table_name")>>]}
PermEntities == {"Task", "Sales Order", "Note", "Tag", "Sales Invoice Item"}

\* the calls of the sequential specification
SeqFilters == {f \in GQFilters : Len(f.entries) # 1}
SeqFields == {f \in GQFields : Len(f.items) < 2}

(***************************************************************************)
(* Specifications.                                                         *)
(***************************************************************************)
Active(t) == pc[t] \in {"reset", "built", "fields"}

\* Spec: get_query and build_conditions calls on two Engine instances, one
\* call at a time.
Init == InitEngine /\ db = Tree /\ bc = NoBc /\ ns = NoNs

SeqGetQuery ==
  \E t \in Callers, e \in Engines, flds \in SeqFields, flt \in SeqFilters,
     kw \in GQKw :
    /\ \A u \in Callers : ~Active(u)
    /\ GetQueryReset(t, e, "Task", flds, flt, kw)

SeqBuildConditions ==
  \E e \in Engines :
    /\ \A u \in Callers : ~Active(u)
    /\ BuildConditionsCall(e, "Item", ListFilter(<<Tuple4("Tag", "label", "=", Str("y"))>>),
                            NoKw)

Steps == \E t \in Callers :
           GetQueryBuildConditions(t) \/ GetQuerySetFields(t) \/ GetQueryJoin(t)

Next == SeqGetQuery \/ SeqBuildConditions \/ Steps

Spec == Init /\ [][Next]_vars

\* SpecConc: two callers in get_query on the one shared instance e1, their
\* statements interleaved.
ConcGetQuery ==
  \E t \in Callers, table \in GQTables, flds \in GQFields, flt \in GQFilters :
    GetQueryReset(t, "e1", table, flds, flt, NoKw)

NextConc == ConcGetQuery \/ Steps

SpecConc == Init /\ [][NextConc]_vars

\* SpecBC: one build_conditions call on a fresh engine, its arguments drawn
\* by the initial state.
InitBC ==
  /\ InitEngine
  /\ db \in {Tree, {}}
  /\ ns = NoNs
  /\ bc \in {[NoBc EXCEPT !.table = "Task", !.filters = flt, !.kw = kw] :
               flt \in BCFilters, kw \in BCKw}

NextBC == ~bc.called /\ BuildConditionsCall("e1", bc.table, bc.filters, bc.kw)

SpecBC == InitBC /\ [][NextBC]_vars

\* SpecNS: get_nested_set_hierarchy_result over every nested set of the bounds.
InitNS == InitEngine /\ db \in NestedSets /\ bc = NoBc /\ ns = NoNs

NextNS == \E hierarchy \in NestedSetHierarchy, field \in NodeNames \cup {"Z"} :
            NestedSetCall(hierarchy, field)

SpecNS == InitNS /\ [][NextNS]_vars

\* SpecMQ: one build_conditions call whose filters are a list that may hold
\* bare strings, the input of the positional shorthand of misc_query.
InitMQ ==
  /\ InitEngine
  /\ db = Tree
  /\ ns = NoNs
  /\ bc \in {[NoBc EXCEPT !.table = "Task", !.filters = flt, !.kw = kw] :
               flt \in MQFilters, kw \in BCKw}

SpecMQ == InitMQ /\ [][NextBC]_vars

\* SpecPerm: get_query builds on one instance, one at a time, each finished
\* query handed to Permission.check_permissions.
PermGetQuery ==
  \E table \in PermTables, flds \in PermFields, flt \in PermFilters :
    /\ \A u \in Callers : ~Active(u)
    /\ GetQueryReset("t1", "e1", table, flds, flt, NoKw)

PermCheck == \E t \in Callers, granted \in {PermEntities, {"Task"}, {}} :
               CheckPermissions(t, granted)

NextPerm == PermGetQuery \/ Steps \/ PermCheck

SpecPerm == Init /\ [][NextPerm]_vars

(***************************************************************************)
(* Properties.                                                             *)
(***************************************************************************)
Range(seq) == {seq[i] : i \in 1..Len(seq)}

\* the child entities a call references: the qualifiers of its 4-tuple
\* filters and of its resolved fields, other than its own table
OwnChildren(c) ==
  ({c.filters.entries[i].table : i \in 1..Len(c.filters.entries)}
     \cup {f.table : f \in Range(set_fields(c.table, c.fields, c.kw))})
  \ {None, c.table}

\* C1: every get_query build starts with an empty table cache and an empty
\* join plan, whatever was called before on this or another instance, and two
\* builds with the same table, fields, filters and options return the same
\* query (same joins, same handles) whatever preceded them.
C1_FreshBuildState ==
  /\ \A t \in Callers : pc[t] = "reset" =>
        /\ SelfTables(call[t].engine) = <<>>
        /\ \A jt \in JoinTypes : joined_tables[call[t].engine][jt] = None
  /\ \A t, u \in Callers :
        ( /\ pc[t] = "done" /\ pc[u] = "done"
          /\ [call[t] EXCEPT !.engine = "e1"] = [call[u] EXCEPT !.engine = "e1"] )
        => criterion[t] = criterion[u]
  /\ \A t \in Callers : pc[t] = "done" =>
        {j.child : j \in Range(criterion[t].joins)} = OwnChildren(call[t])

\* a build has just reset the state of an instance on which an earlier build
\* joined child tables, after a direct build_conditions call filled the class cache
C1_Witness ==
  \E t, u \in Callers :
    /\ pc[t] = "reset" /\ pc[u] = "done"
    /\ call[t].engine = call[u].engine
    /\ criterion[u].joins # <<>>
    /\ classTables # <<>>

\* C2: with two builds interleaved on one instance, each build completes
\* without an error and its query joins exactly the child entities its own
\* filters and fields reference.
C2_NoLeakUnderConcurrency ==
  \A t \in Callers :
    /\ pc[t] # "failed"
    /\ pc[t] = "done" =>
         {j.child : j \in Range(criterion[t].joins)} = OwnChildren(call[t])

\* C3: the query of a finished build holds at most one join clause per
\* (join-type, child-table) pair.
C3_OneJoinPerChild ==
  \A t \in Callers : pc[t] = "done" =>
    \A i, j \in 1..Len(criterion[t].joins) :
      ( /\ criterion[t].joins[i].type = criterion[t].joins[j].type
        /\ criterion[t].joins[i].child = criterion[t].joins[j].child ) => i = j

\* a 3- or 4-tuple entry whose operator token is in the operator table
\* whatever its case
KnownTuple(f) == f.kind = "tuple" /\ \E k \in OperatorKeys \ {"nested_set"} :
                                       Casefold(f.tok) = k

\* the predicate p is the one of tuple entry f: its field, its qualifier, and
\* the operator its token names
PredicateOf(p, f) ==
  /\ p.field = f.field /\ p.table = f.table
  /\ p.op = Casefold(f.tok)
  /\ p.value.items = f.val.items

\* C4: for a list or tuple of 3-/4-tuples with known operators, the WHERE of
\* the returned query holds exactly one predicate per entry, in entry order.
C4_OnePredicatePerEntry ==
  ( /\ bc.called /\ bc.filters.kind \in {"list", "tuple"}
    /\ \A i \in 1..Len(bc.filters.entries) : KnownTuple(bc.filters.entries[i]) )
  => /\ ~bc.err
     /\ Len(bc.q.wheres) = Len(bc.filters.entries)
     /\ \A i \in 1..Len(bc.filters.entries) :
          PredicateOf(bc.q.wheres[i], bc.filters.entries[i])

\* C5: in a list of tuple and dict entries, the predicate of every tuple entry
\* is in the returned query, also when a dict entry follows it.
C5_DictEntryKeepsEarlierPredicates ==
  ( /\ bc.called /\ bc.filters.kind = "list"
    /\ \A i \in 1..Len(bc.filters.entries) :
         KnownTuple(bc.filters.entries[i]) \/ bc.filters.entries[i].kind = "dict" )
  => /\ ~bc.err
     /\ \A i \in 1..Len(bc.filters.entries) :
          KnownTuple(bc.filters.entries[i]) =>
            \E k \in 1..Len(bc.q.wheres) :
              PredicateOf(bc.q.wheres[k], bc.filters.entries[i])

\* a dict item with a plain-string key whose value is a plain value, a
\* hierarchy-verb pair or a pair with a known operator
PlainKeyItem(it) ==
  /\ ~HasFunction(it.key)
  /\ it.kind = "pair" =>
       \/ it.tok \in NestedSetHierarchy
       \/ Casefold(it.tok) \in OperatorKeys \ {"nested_set"}

\* C6: a dict filter with n plain-string keys yields exactly n predicates, one
\* for each key in key order.
C6_OnePredicatePerKey ==
  ( /\ bc.called /\ bc.filters.kind = "dict"
    /\ \A i \in 1..Len(bc.filters.items) : PlainKeyItem(bc.filters.items[i]) )
  => /\ ~bc.err
     /\ Len(bc.q.wheres) = Len(bc.filters.items)
     /\ \A i \in 1..Len(bc.filters.items) :
          bc.q.wheres[i].field = bc.filters.items[i].key

\* the clauses the shared modifiers set
Modifiers(q) == <<q.orderbys, q.limit, q.offset, q.distinct, q.for_update, q.groupbys>>

\* C7: whatever the filter shape, the returned query carries each shared
\* modifier exactly as one application of the options to a new query sets it.
C7_ModifiersOnceForEveryShape ==
  (bc.called /\ ~bc.err) =>
    Modifiers(bc.q) = Modifiers(add_conditions(NewQuery("select", bc.table), bc.kw))

\* an operator token that no case folding finds in the operator table
UnknownToken(tok) == Casefold(tok) \notin OperatorKeys /\ tok \notin NestedSetHierarchy

\* C8: a list of tuples or a dict with plain keys that holds an operator token
\* missing from the operator table returns no query (build_conditions raises),
\* and a known token in another case is accepted.
C8_UnknownOperatorRaises ==
  /\ ( /\ bc.called /\ bc.filters.kind = "list"
       /\ \A i \in 1..Len(bc.filters.entries) : bc.filters.entries[i].kind = "tuple"
       /\ \E i \in 1..Len(bc.filters.entries) : UnknownToken(bc.filters.entries[i].tok) )
     => bc.err
  /\ ( /\ bc.called /\ bc.filters.kind = "dict"
       /\ \A i \in 1..Len(bc.filters.items) : ~HasFunction(bc.filters.items[i].key)
       /\ \E i \in 1..Len(bc.filters.items) :
            bc.filters.items[i].kind = "pair" /\ UnknownToken(bc.filters.items[i].tok) )
     => bc.err
  /\ ( /\ bc.called /\ bc.filters.kind = "list"
       /\ \A i \in 1..Len(bc.filters.entries) : KnownTuple(bc.filters.entries[i]) )
     => ~bc.err

\* the rows of db strictly inside, and strictly enclosing, the bounds of the
\* row named ref (none when no row has that name)
Inside(rows, ref) ==
  {r \in rows : \E b \in rows : b.name = ref /\ r.lft > b.lft /\ r.rgt < b.rgt}
Enclosing(rows, ref) ==
  {r \in rows : \E b \in rows : b.name = ref /\ r.lft < b.lft /\ r.rgt > b.rgt}

\* seq lists the names of rows once each, by lft in the given order
ListsByLft(seq, rows, order) ==
  /\ Len(seq) = Cardinality(rows)
  /\ Range(seq) = {r.name : r \in rows}
  /\ \A i, j \in 1..Len(seq) : i < j =>
       \A r, o \in rows : (r.name = seq[i] /\ o.name = seq[j]) =>
          IF order = "asc" THEN r.lft < o.lft ELSE r.lft > o.lft

\* C9: "descendants of" returns the rows strictly inside the reference bounds
\* by lft ascending, "ancestors of" the rows strictly enclosing them by lft
\* descending, and a reference that matches no row gives the empty result.
C9_HierarchyResult ==
  ns.called =>
    /\ ns.hierarchy = "descendants of" =>
         ListsByLft(ns.result, Inside(db, ns.field), "asc")
    /\ ns.hierarchy = "ancestors of" =>
         ListsByLft(ns.result, Enclosing(db, ns.field), "desc")
    /\ (\A r \in db : r.name # ns.field) => ns.result = <<>>

\* "ancestors of" a row with two ancestors was answered
C9_Witness ==
  ns.called /\ ns.hierarchy = "ancestors of" /\ Len(ns.result) = 2

\* the operand of an IN / NOT IN over the names of rows: ("",) when there are none
IdOperand(rows) == IF rows = {} THEN {""} ELSE {r.name : r \in rows}

\* a dict filter whose first key carries the hierarchy verb
FirstVerb(verb) ==
  /\ bc.called /\ bc.filters.kind = "dict" /\ bc.filters.items # <<>>
  /\ bc.filters.items[1].kind = "pair" /\ bc.filters.items[1].tok = verb

\* C10 as stated: "not ancestors of" is NOT IN over the descendant range and
\* "not descendants of" is NOT IN over the ancestor range.
C10_ComplementarySide ==
  /\ FirstVerb("not ancestors of") =>
       /\ ~bc.err /\ bc.q.wheres[1].op = "not in"
       /\ Range(bc.q.wheres[1].value.items)
            = IdOperand(Inside(db, bc.filters.items[1].val.items[1]))
  /\ FirstVerb("not descendants of") =>
       /\ ~bc.err /\ bc.q.wheres[1].op = "not in"
       /\ Range(bc.q.wheres[1].value.items)
            = IdOperand(Enclosing(db, bc.filters.items[1].val.items[1]))

\* C10 amended: "not ancestors of" is NOT IN over the ancestor range and
\* "not descendants of" is NOT IN over the descendant range (over the single
\* empty string when the range is empty).
C10_SameSideNegated ==
  /\ FirstVerb("not ancestors of") =>
       /\ ~bc.err /\ bc.q.wheres[1].op = "not in"
       /\ Range(bc.q.wheres[1].value.items)
            = IdOperand(Enclosing(db, bc.filters.items[1].val.items[1]))
  /\ FirstVerb("not descendants of") =>
       /\ ~bc.err /\ bc.q.wheres[1].op = "not in"
       /\ Range(bc.q.wheres[1].value.items)
            = IdOperand(Inside(db, bc.filters.items[1].val.items[1]))

\* a "not descendants of" filter of a row that has descendants was compiled
C10_Witness ==
  /\ FirstVerb("not descendants of")
  /\ Inside(db, bc.filters.items[1].val.items[1]) # {}

\* the field values of the rows a hierarchy predicate is evaluated on: the
\* non-empty names of the tree
RowValues == {r.name : r \in Tree}

\* the row value v satisfies the IN / NOT IN predicate p
Selects(p, v) ==
  IF p.op = "in" THEN v \in Range(p.value.items) ELSE v \notin Range(p.value.items)

\* a dict filter whose first key carries the hierarchy verb, and the lookup
\* of its reference is empty
EmptyLookup(verb) ==
  /\ FirstVerb(verb)
  /\ get_nested_set_hierarchy_result(db, verb, bc.filters.items[1].val.items[1]) = <<>>

\* C11 as stated: for each of the four hierarchy verbs, an empty lookup adds
\* the membership in the single empty string, a predicate no row satisfies.
C11_EmptyLookupMatchesNothing ==
  \A verb \in NestedSetHierarchy : EmptyLookup(verb) =>
    /\ ~bc.err /\ bc.q.wheres[1].op = "in"
    /\ bc.q.wheres[1].value.items = <<"">>
    /\ \A v \in RowValues : ~Selects(bc.q.wheres[1], v)

\* C11 amended: on an empty lookup "ancestors of" and "descendants of" add IN
\* over the single empty string, which no row with a non-empty value
\* satisfies; "not ancestors of" and "not descendants of" add NOT IN over the
\* single empty string, which every row with a non-empty value satisfies.
C11_EmptyLookupOperand ==
  \A verb \in NestedSetHierarchy : EmptyLookup(verb) =>
    /\ ~bc.err
    /\ bc.q.wheres[1].field = bc.filters.items[1].key
    /\ bc.q.wheres[1].value.items = <<"">>
    /\ IF verb \in {"ancestors of", "descendants of"}
       THEN /\ bc.q.wheres[1].op = "in"
            /\ \A v \in RowValues : ~Selects(bc.q.wheres[1], v)
       ELSE /\ bc.q.wheres[1].op = "not in"
            /\ \A v \in RowValues : Selects(bc.q.wheres[1], v)

\* "not ancestors of" a reference without ancestors was compiled over a
\* table that has rows
C11_Witness ==
  /\ EmptyLookup("not ancestors of")
  /\ db # {}
  /\ bc.q.wheres[1].op = "not in"

\* a list filter that holds an entry that is neither a tuple nor a dict
HoldsBare == bc.filters.kind = "list"
             /\ \E i \in 1..Len(bc.filters.entries) : bc.filters.entries[i].kind = "bare"

Referenced(c) == {c.table} \cup OwnChildren(c)

\* the entity names check_permissions derives from the rendered query
Recovered == {TabSub(w) : w \in Range(perm.doctype)}

\* C13: the entity names the permission gate derives from the rendered query
\* (the words starting with "tab", that prefix removed) are exactly the
\* entities the build referenced.
C13_RoundTrip ==
  perm.called => Recovered = Referenced(perm.call)

====
